---- MODULE Spec2Model ----
(***************************************************************************)
(* Solar structure calculator: rod capacity, structure distribution, leg   *)
(* geometry, rod totals, cutting-stock plan, cost aggregation and the      *)
(* inventory reconciler.                                                   *)
(*                                                                         *)
(* Numbers.  The program computes with IEEE doubles; the model computes    *)
(* with integers in fixed units:                                           *)
(*   lengths            mils (1/1000 inch): 164 in = 164000                *)
(*   x.toFixed(2)       hundredths of an inch (the decimal string), read   *)
(*                      back by parseFloat/Number as 10 mils per unit      *)
(*   x.toFixed(0)       whole inches                                       *)
(*   money              1/164 of a currency unit (rodPerInch = perRod/164  *)
(*                      is then exact); wastage in 1/16400                 *)
(*   ln, sin            fixed-point approximations, see LnE4 and           *)
(*                      TriangleE4                                         *)
(***************************************************************************)
EXTENDS Integers, Sequences, FiniteSets

(* ---------------------------------------------------------------------- *)
(* Program constants                                                       *)
(* ---------------------------------------------------------------------- *)
ROD_LENGTH == 164000

GAP == 5000

KERF == 125

STRUCTURE_PENALTY_E4 == 3500

BASE_PLATES == 4

ANCHOR_BOLTS == 16

ANGLE_ATTACHERS == 4

NUTS == 24

UCLAMPS_PER_PANEL == 4

TOLERANCE == 250

NULL == [null |-> TRUE]

(* ---------------------------------------------------------------------- *)
(* Bounds of the model                                                     *)
(* ---------------------------------------------------------------------- *)
MaxPanels == 5

(* ---------------------------------------------------------------------- *)
(* Arithmetic helpers                                                      *)
(* ---------------------------------------------------------------------- *)
Min(a, b) == IF a <= b THEN a ELSE b

Max(a, b) == IF a >= b THEN a ELSE b

Abs(a) == IF a < 0 THEN -a ELSE a

\* Math.ceil(a / b) for b > 0
CeilDiv(a, b) == IF a >= 0 THEN (a + b - 1) \div b ELSE -((-a) \div b)

\* Math.floor(a / b) for b > 0
FloorDiv(a, b) == a \div b

\* Number.prototype.toFixed(d): the nearest multiple of unit, the larger
\* magnitude on a tie, the sign kept; the result counts units.
RoundTo(x, unit) ==
  IF x >= 0 THEN (2 * x + unit) \div (2 * unit)
  ELSE -((2 * (-x) + unit) \div (2 * unit))

\* mils -> hundredths (the string of toFixed(2))
toFixed2(x) == RoundTo(x, 10)

\* mils -> whole inches (the string of toFixed(0))
toFixed0(x) == RoundTo(x, 1000)

\* parseFloat / Number of a toFixed(2) string -> mils
parseFloat2(s) == s * 10

RECURSIVE SumSeq(_)
SumSeq(s) == IF s = <<>> THEN 0 ELSE Head(s) + SumSeq(Tail(s))

(* ---------------------------------------------------------------------- *)
(* Rod capacity calculator                                                 *)
(* ---------------------------------------------------------------------- *)
\* the while loop of calculatePanelsPerRod: the first maxPanels that does
\* not fit
RECURSIVE PanelsPerRodLoop(_, _, _, _)
PanelsPerRodLoop(maxPanels, panelLen, rodLength, gap) ==
  IF maxPanels * panelLen + (maxPanels - 1) * gap <= rodLength
  THEN PanelsPerRodLoop(maxPanels + 1, panelLen, rodLength, gap)
  ELSE maxPanels

calculatePanelsPerRodOffByOne(panelLen, rodLength, gap) ==
  PanelsPerRodLoop(0, panelLen, rodLength, gap)

calculatePanelsPerRod(panelLen, rodLength, gap) ==
  PanelsPerRodLoop(0, panelLen, rodLength, gap) - 1

structureFootprintLen(panelsInStructure, panelLen, gap) ==
  IF panelsInStructure <= 0 THEN 0
  ELSE panelsInStructure * panelLen + (panelsInStructure - 1) * gap

(* ---------------------------------------------------------------------- *)
(* Structure distributor                                                   *)
(* ---------------------------------------------------------------------- *)
\* greedy-uniform strategy without the group of the remaining panels
smartDistributePanelsDropRemainder(totalPanels, maxPanelsPerRod) ==
  LET fullStructures == FloorDiv(totalPanels, maxPanelsPerRod)
  IN  SelectSeq(<< [panels |-> maxPanelsPerRod, count |-> fullStructures] >>,
                LAMBDA s : s.count > 0)

\* greedy-uniform strategy without the filter of the zero-count groups
smartDistributePanelsUnfiltered(totalPanels, maxPanelsPerRod) ==
  LET fullStructures == FloorDiv(totalPanels, maxPanelsPerRod)
      remainingPanels == totalPanels % maxPanelsPerRod
  IN  IF remainingPanels = 0
      THEN << [panels |-> maxPanelsPerRod, count |-> fullStructures] >>
      ELSE << [panels |-> maxPanelsPerRod, count |-> fullStructures],
              [panels |-> remainingPanels, count |-> 1] >>

\* greedy-uniform strategy; the filter is applied in the second return only
smartDistributePanels(totalPanels, maxPanelsPerRod) ==
  LET fullStructures == FloorDiv(totalPanels, maxPanelsPerRod)
      remainingPanels == totalPanels % maxPanelsPerRod
  IN  IF remainingPanels = 0
      THEN << [panels |-> maxPanelsPerRod, count |-> fullStructures] >>
      ELSE SelectSeq(<< [panels |-> maxPanelsPerRod, count |-> fullStructures],
                        [panels |-> remainingPanels, count |-> 1] >>,
                     LAMBDA s : s.count > 0)

\* floor(log2 n), n >= 1
RECURSIVE FloorLog2(_)
FloorLog2(n) == IF n < 2 THEN 0 ELSE 1 + FloorLog2(n \div 2)

\* the bits after the binary point of log2(m / 2^14), m in [2^14, 2^15), by
\* repeated squaring; i bits, returned as an integer
RECURSIVE Log2Frac(_, _)
Log2Frac(m, i) ==
  IF i = 0 THEN 0
  ELSE LET m2 == (m * m) \div 16384
       IN  IF m2 >= 32768 THEN 2 ^ (i - 1) + Log2Frac(m2 \div 2, i - 1)
           ELSE Log2Frac(m2, i - 1)

\* Math.log(n) in units of 1/10000, for an integer n >= 1: log2 to 10 binary
\* places times ln 2 = 0.69315
LnE4(n) ==
  LET e == FloorLog2(n)
      m == IF e <= 14 THEN n * 2 ^ (14 - e) ELSE n \div 2 ^ (e - 14)
  IN  ((e * 1024 + Log2Frac(m, 10)) * 69315) \div 10240

\* Infinity of the dp table and of Math.abs(Math.log(0)) (scores are never
\* negative)
Infinity == -1

\* aspectPenalty of distributePanelsBalanced: |ln(L / W)|, in 1/10000.
\* W = Math.max(1e-6, panelWid): 1e-6 inch is 1/1000 mil, so ln W is
\* ln(panelWid) or -ln(1000); L = 0 gives |ln 0| = Infinity.
aspectPenalty(k, panelLen, panelWid, gap) ==
  LET L == structureFootprintLen(k, panelLen, gap)
      lnW == IF panelWid >= 1 THEN LnE4(panelWid) ELSE -LnE4(1000)
  IN  IF L <= 0 THEN Infinity ELSE Abs(LnE4(L) - lnW)

\* a score replaces only the Infinity the table starts with
ScoreLessThanInfinity(a, b) == a # Infinity /\ b = Infinity

ScoreLess(a, b) == a # Infinity /\ (b = Infinity \/ a < b)

ScoreAdd(a, x) == IF a = Infinity \/ x = Infinity THEN Infinity ELSE a + x

\* for (let k = 1; k <= lim; k++) { ... } of the dp fill
RECURSIVE DpInner(_, _, _, _, _)
DpInner(n, k, lim, tab, pen) ==
  IF k > lim THEN tab
  ELSE LET score == ScoreAdd(ScoreAdd(tab.dp[n - k], pen[k]), STRUCTURE_PENALTY_E4)
       IN  IF ScoreLess(score, tab.dp[n])
           THEN DpInner(n, k + 1, lim,
                        [dp |-> [tab.dp EXCEPT ![n] = score],
                         pick |-> [tab.pick EXCEPT ![n] = k]], pen)
           ELSE DpInner(n, k + 1, lim, tab, pen)

\* for (let n = 1; n <= N; n++) { ... }
RECURSIVE DpOuter(_, _, _, _, _)
DpOuter(n, N, maxK, tab, pen) ==
  IF n > N THEN tab
  ELSE DpOuter(n + 1, N, maxK, DpInner(n, 1, Min(maxK, n), tab, pen), pen)

\* while (n > 0) { const k = pick[n] || 1; sizes.push(k); n -= k; }
RECURSIVE Reconstruct(_, _)
Reconstruct(n, pick) ==
  IF n <= 0 THEN <<>>
  ELSE LET k == IF pick[n] = 0 THEN 1 ELSE pick[n]
       IN  <<k>> \o Reconstruct(n - k, pick)

\* insertion of x into a sequence sorted in non-increasing order, after the
\* elements equal to it (a stable sort)
RECURSIVE InsertDesc(_, _)
InsertDesc(x, s) ==
  IF s = <<>> THEN <<x>>
  ELSE IF Head(s) >= x THEN <<Head(s)>> \o InsertDesc(x, Tail(s))
       ELSE <<x>> \o s

\* sizes.sort((a, b) => b - a)
RECURSIVE SortDesc(_)
SortDesc(s) ==
  IF s = <<>> THEN <<>>
  ELSE InsertDesc(s[Len(s)], SortDesc(SubSeq(s, 1, Len(s) - 1)))

\* Compress into [{panels, count}]
RECURSIVE Compress(_, _)
Compress(sizes, out) ==
  IF sizes = <<>> THEN out
  ELSE LET k == Head(sizes)
       IN  IF out # <<>> /\ out[Len(out)].panels = k
           THEN Compress(Tail(sizes),
                  [out EXCEPT ![Len(out)].count = out[Len(out)].count + 1])
           ELSE Compress(Tail(sizes), Append(out, [panels |-> k, count |-> 1]))

BalancedSizes(N, maxK, panelLen, panelWid, gap) ==
  LET pen == [k \in 1..maxK |-> aspectPenalty(k, panelLen, panelWid, gap)]
      tab0 == [dp |-> [n \in 0..N |-> IF n = 0 THEN 0 ELSE Infinity],
               pick |-> [n \in 0..N |-> 0]]
      tab == DpOuter(1, N, maxK, tab0, pen)
  IN  Reconstruct(N, tab.pick)

distributePanelsBalancedNoCap(totalPanels, maxPanelsPerRod, panelLen, panelWid, gap) ==
  LET N == Max(0, totalPanels)
  IN  Compress(SortDesc(BalancedSizes(N, Max(N, 1), panelLen, panelWid, gap)), <<>>)

distributePanelsBalanced(totalPanels, maxPanelsPerRod, panelLen, panelWid, gap) ==
  LET N == Max(0, totalPanels)
      maxK == Max(1, maxPanelsPerRod)
  IN  Compress(SortDesc(BalancedSizes(N, maxK, panelLen, panelWid, gap)), <<>>)

(* ---------------------------------------------------------------------- *)
(* Leg geometry calculator                                                 *)
(* ---------------------------------------------------------------------- *)
\* sin(19 deg) = 0.32556815 and (2/3) sin(19 deg) = 0.21704544, in 1e-7
SIN_TILT_E7 == 3255682

SUPPORT_SIN_TILT_E7 == 2170454

\* hyp * f for hyp in mils and f in 1e-7, in units of 1e-4 inch, rounded down:
\* hyp * f / 10^6, the product taken in three-digit limbs
TriangleE4(hyp, f) ==
  LET ah == hyp \div 1000
      al == hyp % 1000
      fh == f \div 1000
      fl == f % 1000
  IN  ah * fh + (ah * fl + al * fh + (al * fl) \div 1000) \div 1000

\* rearLegHeight and hypotenuseRodLength are toFixed(2) strings (hundredths)
LegSet(frontLegHeight, panelsPerStructure, panelLen, gap, f) ==
  LET totalHypotenuse == (panelLen + gap) * panelsPerStructure
      triangleHeight == TriangleE4(totalHypotenuse, f)
      rearLegHeight == frontLegHeight * 10 + triangleHeight
  IN  [totalFrontLegs |-> 2,
       totalRearLegs |-> 2,
       frontLegHeight |-> frontLegHeight,
       rearLegHeight |-> RoundTo(rearLegHeight, 100),
       panelsPerStructure |-> panelsPerStructure,
       hypotenuseRodLength |-> toFixed2(totalHypotenuse)]

\* src/app/HomeClient.tsx: triangleHeight = (totalHypotenuse * 2 / 3) * sin(tilt)
calculateLegsPerStructure(frontLegHeight, panelsPerStructure, panelLen) ==
  LegSet(frontLegHeight, panelsPerStructure, panelLen, GAP, SUPPORT_SIN_TILT_E7)

\* the first version of the page: triangleHeight = totalHypotenuse * sin(tilt)
calculateLegsPerStructureV1(frontLegHeight, panelsPerStructure, panelLen) ==
  LegSet(frontLegHeight, panelsPerStructure, panelLen, GAP, SIN_TILT_E7)

(* ---------------------------------------------------------------------- *)
(* Rod totals aggregator                                                   *)
(* ---------------------------------------------------------------------- *)
\* one hypotenuse rod per structure
BreakdownEntryOneHypo(s, legs, frontLegHeight) ==
  LET rear == parseFloat2(legs.rearLegHeight)
      hypo == parseFloat2(legs.hypotenuseRodLength)
      frontLegsCount == legs.totalFrontLegs * s.count
      rearLegsCount == legs.totalRearLegs * s.count
      hypoRodsCount == s.count
      inchesThisType == frontLegsCount * frontLegHeight
                        + rearLegsCount * rear + hypoRodsCount * hypo
  IN  [panels |-> s.panels,
       count |-> s.count,
       legs |-> legs,
       frontLegsCount |-> frontLegsCount,
       rearLegsCount |-> rearLegsCount,
       hypoRodsCount |-> hypoRodsCount,
       inches |-> inchesThisType,
       inchesThisType |-> toFixed0(inchesThisType)]

\* one element of breakdown; inches is the unrounded inchesThisType (mils)
BreakdownEntry(s, legs, frontLegHeight) ==
  LET rear == parseFloat2(legs.rearLegHeight)
      hypo == parseFloat2(legs.hypotenuseRodLength)
      frontLegsCount == legs.totalFrontLegs * s.count
      rearLegsCount == legs.totalRearLegs * s.count
      hypoRodsCount == 2 * s.count
      inchesThisType == frontLegsCount * frontLegHeight
                        + rearLegsCount * rear + hypoRodsCount * hypo
  IN  [panels |-> s.panels,
       count |-> s.count,
       legs |-> legs,
       frontLegsCount |-> frontLegsCount,
       rearLegsCount |-> rearLegsCount,
       hypoRodsCount |-> hypoRodsCount,
       inches |-> inchesThisType,
       inchesThisType |-> toFixed0(inchesThisType)]

RodsFromBreakdown(breakdown, rodLength) ==
  LET n == Len(breakdown)
      totalInches == SumSeq([i \in 1..n |-> breakdown[i].inches])
  IN  [breakdown |->
         [i \in 1..n |->
            [panels |-> breakdown[i].panels,
             count |-> breakdown[i].count,
             legs |-> breakdown[i].legs,
             frontLegsCount |-> breakdown[i].frontLegsCount,
             rearLegsCount |-> breakdown[i].rearLegsCount,
             hypoRodsCount |-> breakdown[i].hypoRodsCount,
             inchesThisType |-> breakdown[i].inchesThisType]],
       totals |->
         [totalFrontLegs |-> SumSeq([i \in 1..n |-> breakdown[i].frontLegsCount]),
          totalRearLegs |-> SumSeq([i \in 1..n |-> breakdown[i].rearLegsCount]),
          totalHypoRods |-> SumSeq([i \in 1..n |-> breakdown[i].hypoRodsCount]),
          totalInchesRequired |-> toFixed0(totalInches),
          totalRodsNeeded |-> CeilDiv(totalInches, rodLength)],
       isUniform |-> (n = 1)]

calculateRodsForProject(structures, frontLegHeight, panelLen, rodLength) ==
  RodsFromBreakdown(
    [i \in 1..Len(structures) |->
       BreakdownEntry(structures[i],
         calculateLegsPerStructure(frontLegHeight, structures[i].panels, panelLen),
         frontLegHeight)],
    rodLength)

calculateRodsForProjectV1(structures, frontLegHeight, panelLen, rodLength) ==
  RodsFromBreakdown(
    [i \in 1..Len(structures) |->
       BreakdownEntry(structures[i],
         calculateLegsPerStructureV1(frontLegHeight, structures[i].panels, panelLen),
         frontLegHeight)],
    rodLength)

(* ---------------------------------------------------------------------- *)
(* Cutting-stock planner                                                   *)
(* ---------------------------------------------------------------------- *)
\* insertion of a piece into pieces sorted by non-increasing len, after the
\* pieces of the same len (Array.prototype.sort is stable)
RECURSIVE InsertPieceDesc(_, _)
InsertPieceDesc(x, s) ==
  IF s = <<>> THEN <<x>>
  ELSE IF Head(s).len >= x.len THEN <<Head(s)>> \o InsertPieceDesc(x, Tail(s))
       ELSE <<x>> \o s

\* [...pieces].sort((a, b) => b.len - a.len)
RECURSIVE SortPiecesDesc(_)
SortPiecesDesc(s) ==
  IF s = <<>> THEN <<>>
  ELSE InsertPieceDesc(s[Len(s)], SortPiecesDesc(SubSeq(s, 1, Len(s) - 1)))

\* only the rod opened last is tried
FirstFitLastRodOnly(rods, i, piece, rodLen, kerf) ==
  IF rods = << >> THEN 0
  ELSE LET last == rods[Len(rods)]
           needed == piece.len + (IF Len(last.cuts) > 0 THEN kerf ELSE 0)
       IN  IF last.used + needed <= rodLen THEN Len(rods) ELSE 0

\* for (const rod of rods): the index of the first rod that takes the piece,
\* 0 when none does.  The comparison is rod.used + needed <= rodLen + 1e-9;
\* every length here is a whole number of mils, which 1e-9 inch never bridges.
RECURSIVE FirstFit(_, _, _, _, _)
FirstFit(rods, i, piece, rodLen, kerf) ==
  IF i > Len(rods) THEN 0
  ELSE LET extraKerf == IF Len(rods[i].cuts) > 0 THEN kerf ELSE 0
           needed == piece.len + extraKerf
       IN  IF rods[i].used + needed <= rodLen THEN i
           ELSE FirstFit(rods, i + 1, piece, rodLen, kerf)

\* for (const piece of sorted) { ... }
RECURSIVE PlaceAll(_, _, _, _)
PlaceAll(sorted, rods, rodLen, kerf) ==
  IF sorted = <<>> THEN rods
  ELSE LET piece == Head(sorted)
           i == FirstFit(rods, 1, piece, rodLen, kerf)
       IN  IF i > 0
           THEN PlaceAll(Tail(sorted),
                  [rods EXCEPT ![i] =
                     [cuts |-> Append(rods[i].cuts, piece),
                      used |-> rods[i].used + piece.len
                               + (IF Len(rods[i].cuts) > 0 THEN kerf ELSE 0)]],
                  rodLen, kerf)
           ELSE PlaceAll(Tail(sorted),
                  Append(rods, [cuts |-> <<piece>>, used |-> piece.len]),
                  rodLen, kerf)

\* the plan of all pieces but the first
buildCutPlanFFDSkipFirst(pieces, rodLen, kerf) ==
  LET rest == IF pieces = <<>> THEN <<>> ELSE Tail(pieces)
      rods == PlaceAll(SortPiecesDesc(rest), <<>>, rodLen, kerf)
  IN  [i \in 1..Len(rods) |->
         [cuts |-> rods[i].cuts,
          used |-> rods[i].used,
          waste |-> toFixed2(rodLen - rods[i].used)]]

\* waste is Number((rodLen - r.used).toFixed(2)): hundredths
buildCutPlanFFD(pieces, rodLen, kerf) ==
  LET rods == PlaceAll(SortPiecesDesc(pieces), <<>>, rodLen, kerf)
  IN  [i \in 1..Len(rods) |->
         [cuts |-> rods[i].cuts,
          used |-> rods[i].used,
          waste |-> toFixed2(rodLen - rods[i].used)]]

\* the signature of a rod: its cuts sorted by length descending, each as
\* `${c.type}:${c.len.toFixed(2)}`
Signature(rod) ==
  LET sorted == SortPiecesDesc(rod.cuts)
  IN  [i \in 1..Len(sorted) |-> [type |-> sorted[i].type, len |-> toFixed2(sorted[i].len)]]

\* the index of the entry of pattern sig in the map, 0 when there is none
PatternAt(map, sig) ==
  LET hits == {i \in 1..Len(map) : map[i].pattern = sig}
  IN  IF hits = {} THEN 0 ELSE CHOOSE i \in hits : TRUE

\* a rod whose signature is in the map already leaves its entry as it is
AddPatternOnce(map, rod) ==
  LET sig == Signature(rod)
  IN  IF PatternAt(map, sig) = 0
      THEN Append(map, [pattern |-> sig, count |-> 1, exampleWaste |-> rod.waste])
      ELSE map

\* map.get(sig) / map.set(sig, ...): a Map keeps its keys in insertion order
AddPattern(map, rod) ==
  LET sig == Signature(rod)
      at == PatternAt(map, sig)
  IN  IF at = 0
      THEN Append(map, [pattern |-> sig, count |-> 1, exampleWaste |-> rod.waste])
      ELSE [map EXCEPT ![at].count = map[at].count + 1]

\* for (const rod of rods) { ... }
RECURSIVE PatternMap(_, _, _)
PatternMap(rods, r, map) ==
  IF r > Len(rods) THEN map
  ELSE PatternMap(rods, r + 1, AddPattern(map, rods[r]))

RECURSIVE InsertByCount(_, _)
InsertByCount(x, q) ==
  IF q = <<>> THEN <<x>>
  ELSE IF Head(q).count >= x.count THEN <<Head(q)>> \o InsertByCount(x, Tail(q))
       ELSE <<x>> \o q

\* .sort((a, b) => b.count - a.count): stable
RECURSIVE SortByCount(_)
SortByCount(q) ==
  IF q = <<>> THEN <<>>
  ELSE InsertByCount(q[Len(q)], SortByCount(SubSeq(q, 1, Len(q) - 1)))

summarizePatterns(rods) == SortByCount(PatternMap(rods, 1, <<>>))

\* n copies of a piece
Repeat(piece, n) == [i \in 1..n |-> piece]

\* the pieces pushed for the breakdown entries from index i on
RECURSIVE PiecesOf(_, _)
PiecesOf(breakdown, i) ==
  IF i > Len(breakdown) THEN <<>>
  ELSE LET b == breakdown[i]
       IN  Repeat([type |-> "Front", len |-> b.legs.frontLegHeight], b.frontLegsCount)
           \o Repeat([type |-> "Rear", len |-> parseFloat2(b.legs.rearLegHeight)],
                     b.rearLegsCount)
           \o Repeat([type |-> "Hypo", len |-> parseFloat2(b.legs.hypotenuseRodLength)],
                     b.hypoRodsCount)
           \o PiecesOf(breakdown, i + 1)

\* the cutData memo of RodCuttingSuggestions; rodsPlan is kept beside the
\* reported numbers (patterns are derived from it)
RodCuttingSuggestions(res) ==
  IF res = NULL \/ Len(res.rods.breakdown) = 0 THEN NULL
  ELSE LET pieces == PiecesOf(res.rods.breakdown, 1)
           rodsPlan == buildCutPlanFFD(pieces, ROD_LENGTH, KERF)
       IN  [piecesCount |-> Len(pieces),
            rodsCount |-> Len(rodsPlan),
            totalWaste |-> SumSeq([i \in 1..Len(rodsPlan) |-> rodsPlan[i].waste]),
            patterns |-> summarizePatterns(rodsPlan),
            rodsPlan |-> rodsPlan]

(* ---------------------------------------------------------------------- *)
(* Cost aggregator                                                         *)
(* ---------------------------------------------------------------------- *)
\* the text of an input field: a number, the empty string, text that is no
\* number, or a parameter that was not passed
Num(n) == [text |-> "num", n |-> n]

EmptyStr == [text |-> "empty", n |-> 0]

JunkStr == [text |-> "junk", n |-> 0]

Undefined == [text |-> "undefined", n |-> 0]

\* Number(v) is finite for a number and for "" (which is 0)
toNum(v, fallback) ==
  IF v.text = "num" THEN v.n
  ELSE IF v.text = "empty" THEN 0
  ELSE fallback

\* an amount of money, in 1/16400 of a currency unit
Money(x) == x * 16400

\* (x * pct) / 100 for x a multiple of 100
Percent(x, pct) == (x \div 100) * pct

\* sum of count, and of count * panels, over the structure groups
StructureCount(structures) ==
  SumSeq([i \in 1..Len(structures) |-> structures[i].count])

PanelCount(structures) ==
  SumSeq([i \in 1..Len(structures) |-> structures[i].count * structures[i].panels])

\* total omits the installation charge
CostTotalNoInstallation(subtotal, wastage, price) ==
  subtotal + wastage + Money(price.service)

CostTotal(subtotal, wastage, price) ==
  subtotal + wastage + Money(price.service) + Money(price.installation)

\* normal bolts counted per panel
HardwareQtyPerPanel(structures, panels) ==
  [basePlates |-> structures * BASE_PLATES,
   anchorBolts |-> structures * ANCHOR_BOLTS,
   angleFitters |-> structures * ANGLE_ATTACHERS,
   normalBolts |-> panels * NUTS,
   uClamps |-> panels * UCLAMPS_PER_PANEL]

HardwareQty(structures, panels) ==
  [basePlates |-> structures * BASE_PLATES,
   anchorBolts |-> structures * ANCHOR_BOLTS,
   angleFitters |-> structures * ANGLE_ATTACHERS,
   normalBolts |-> structures * NUTS,
   uClamps |-> panels * UCLAMPS_PER_PANEL]

\* a cost of zero quantities in place of null
computeCostNeverNull(res, p) ==
  [qty |-> [inchesUsed |-> 0, structures |-> 0, panels |-> 0, basePlates |-> 0,
            anchorBolts |-> 0, angleFitters |-> 0, normalBolts |-> 0, uClamps |-> 0],
   price |-> [rodPerInch |-> 0, basePlate |-> 0, anchorBolt |-> 0, angleFitter |-> 0,
              normalBolt |-> 0, uClamp |-> 0, service |-> 0, installation |-> 0,
              wastagePct |-> 0],
   items |-> [rodsByInches |-> 0, basePlates |-> 0, anchorBolts |-> 0,
              angleFitters |-> 0, normalBolts |-> 0, uClamps |-> 0],
   subtotal |-> 0, wastage |-> 0, total |-> 0]

\* price.rodPerInch = perRod / ROD_LENGTH is kept as perRod, in 1/164;
\* totalInchesRequired is a non-empty string ("0" included), so the null
\* check is on the structures alone
computeCost(res, p) ==
  IF res = NULL \/ Len(res.structures) = 0 THEN NULL
  ELSE
    LET inchesUsed == res.rods.totals.totalInchesRequired
        structures == StructureCount(res.structures)
        panels == PanelCount(res.structures)
        hw == HardwareQty(structures, panels)
        qty == [inchesUsed |-> inchesUsed,
                structures |-> structures,
                panels |-> panels,
                basePlates |-> hw.basePlates,
                anchorBolts |-> hw.anchorBolts,
                angleFitters |-> hw.angleFitters,
                normalBolts |-> hw.normalBolts,
                uClamps |-> hw.uClamps]
        price == [rodPerInch |-> toNum(p.rodPrice, 1000),
                  basePlate |-> toNum(p.basePlatePrice, 150),
                  anchorBolt |-> toNum(p.anchorBoltPrice, 20),
                  angleFitter |-> toNum(p.angleFitterPrice, 150),
                  normalBolt |-> toNum(p.normalBoltPrice, 15),
                  uClamp |-> toNum(p.uClampPrice, 0),
                  service |-> toNum(p.serviceCharges, 1500),
                  installation |-> toNum(p.installationCharges, 0),
                  wastagePct |-> toNum(p.wastagePercent, 15)]
        items == [rodsByInches |-> qty.inchesUsed * price.rodPerInch * 100,
                  basePlates |-> Money(qty.basePlates * price.basePlate),
                  anchorBolts |-> Money(qty.anchorBolts * price.anchorBolt),
                  angleFitters |-> Money(qty.angleFitters * price.angleFitter),
                  normalBolts |-> Money(qty.normalBolts * price.normalBolt),
                  uClamps |-> Money(qty.uClamps * price.uClamp)]
        subtotal == items.rodsByInches + items.basePlates + items.anchorBolts
                    + items.angleFitters + items.normalBolts + items.uClamps
        wastage == Percent(subtotal, price.wastagePct)
    IN  [qty |-> qty, price |-> price, items |-> items,
         subtotal |-> subtotal, wastage |-> wastage,
         total |-> CostTotal(subtotal, wastage, price)]

totalPanelsFromResults(res) ==
  IF res = NULL \/ Len(res.structures) = 0 THEN 0
  ELSE PanelCount(res.structures)

\* the subtotal is left at the base subtotal
ExtendedSubtotalBaseOnly(baseSubtotal, uClampsCost) == baseSubtotal

ExtendedSubtotal(baseSubtotal, uClampsCost) == baseSubtotal + uClampsCost

extendCostWithUClamps(base, res, uClampPriceStr, uClampsPerPanelStr) ==
  IF base = NULL THEN NULL
  ELSE
    LET panels == totalPanelsFromResults(res)
        perPanel == IF uClampsPerPanelStr.text = "empty" THEN UCLAMPS_PER_PANEL
                    ELSE Max(0, toNum(uClampsPerPanelStr, 0))
        qtyUClamps == panels * perPanel
        unitPrice == toNum(uClampPriceStr, 0)
        uClampsCost == Money(qtyUClamps * unitPrice)
        newSubtotal == ExtendedSubtotal(base.subtotal, uClampsCost)
        newWastage == Percent(newSubtotal, base.price.wastagePct)
    IN  [qty |-> [base.qty EXCEPT !.uClamps = qtyUClamps],
         price |-> [base.price EXCEPT !.uClamp = unitPrice],
         items |-> [base.items EXCEPT !.uClamps = uClampsCost],
         subtotal |-> newSubtotal,
         wastage |-> newWastage,
         wastaged |-> newWastage,
         total |-> CostTotal(newSubtotal, newWastage, base.price)]

(* ---------------------------------------------------------------------- *)
(* Estimation PDF: the Total (INR) column of its table                     *)
(* ---------------------------------------------------------------------- *)
\* n.toLocaleString("en-IN", {maximumFractionDigits: 2}): an amount (in
\* 1/16400) as printed, in hundredths
money(n) == RoundTo(n, 164)

\* cost.qty.inchesUsed * (cost.price.rodPerInch * (1 + wastagePct / 100))
RodTotalWithWastage(c) ==
  c.qty.inchesUsed * c.price.rodPerInch * (100 + c.price.wastagePct)

\* the component with a U-clamp row; its GRAND TOTAL row prints cost.total
EstimationPdfWithUClampRow(c) ==
  LET rodTotalWithWastage == RodTotalWithWastage(c)
      materialSubtotal == rodTotalWithWastage + c.items.basePlates
                          + c.items.anchorBolts + c.items.angleFitters
                          + c.items.uClamps + c.items.normalBolts
  IN  [component |-> "uClampRow",
       materials |-> money(materialSubtotal),
       breakdownRows |-> << money(rodTotalWithWastage), money(c.items.basePlates),
                            money(c.items.anchorBolts), money(c.items.angleFitters),
                            money(c.items.uClamps), money(c.items.normalBolts) >>,
       fabrication |-> money(Money(c.price.service)),
       installation |-> money(Money(c.price.installation)),
       grandTotal |-> money(c.total)]

\* the component that recomputes the grand total for the table
EstimationPdfRecomputed(c) ==
  LET rodTotal == RodTotalWithWastage(c)
      materialSubtotal == rodTotal + c.items.basePlates + c.items.anchorBolts
                          + c.items.angleFitters + c.items.normalBolts
      grandTotal == materialSubtotal + Money(c.price.service)
                    + Money(c.price.installation)
  IN  [component |-> "recomputed",
       materials |-> money(materialSubtotal),
       breakdownRows |-> << money(rodTotal), money(c.items.basePlates),
                            money(c.items.anchorBolts), money(c.items.angleFitters),
                            money(c.items.normalBolts) >>,
       fabrication |-> money(Money(c.price.service)),
       installation |-> money(Money(c.price.installation)),
       grandTotal |-> money(grandTotal)]

PdfComponents == {"uClampRow", "recomputed"}

EstimationPdfJsPdf(component, c) ==
  IF component = "uClampRow" THEN EstimationPdfWithUClampRow(c)
  ELSE EstimationPdfRecomputed(c)

(* ---------------------------------------------------------------------- *)
(* Inventory reconciler                                                    *)
(* ---------------------------------------------------------------------- *)
\* insertion of candidate c into candidates sorted by diff, after those of
\* the same diff (a stable sort)
RECURSIVE InsertByDiff(_, _)
InsertByDiff(c, s) ==
  IF s = <<>> THEN <<c>>
  ELSE IF Head(s).diff <= c.diff THEN <<Head(s)>> \o InsertByDiff(c, Tail(s))
       ELSE <<c>> \o s

\* .sort((a, b) => a.diff - b.diff)
RECURSIVE SortByDiff(_)
SortByDiff(s) ==
  IF s = <<>> THEN <<>>
  ELSE InsertByDiff(s[Len(s)], SortByDiff(SubSeq(s, 1, Len(s) - 1)))

\* inv.map(...).filter(diff <= tolerance && qty > 0), unsorted
CandidatesInOrder(inv, r, tolerance) ==
  SelectSeq([idx \in 1..Len(inv) |->
               [idx |-> idx, diff |-> Abs(inv[idx].len - r.len)]],
            LAMBDA x : x.diff <= tolerance /\ inv[x.idx].qty > 0)

\* only the closest candidate is tried
CandidatesFirstOnly(inv, r, tolerance) ==
  LET sorted == SortByDiff(CandidatesInOrder(inv, r, tolerance))
  IN  IF sorted = <<>> THEN <<>> ELSE <<Head(sorted)>>

\* the candidates in inventory order, not sorted by diff
CandidatesUnsorted(inv, r, tolerance) ==
  CandidatesInOrder(inv, r, tolerance)

\* inv.map(...).filter(...).sort((a, b) => a.diff - b.diff)
Candidates(inv, r, tolerance) ==
  SortByDiff(CandidatesInOrder(inv, r, tolerance))

\* the quantity taken from a candidate
TakeAll(needed, qty) == qty

\* the whole need is taken, whatever the candidate holds
TakeNeeded(needed, qty) == needed

Take(needed, qty) == Min(needed, qty)

\* for (const c of candidates) { ... }; st = [inv, used, needed]
RECURSIVE ConsumeCandidates(_, _, _)
ConsumeCandidates(cands, rlen, st) ==
  IF cands = <<>> \/ st.needed <= 0 THEN st
  ELSE LET c == Head(cands)
           take == Take(st.needed, st.inv[c.idx].qty)
       IN  IF take <= 0 THEN ConsumeCandidates(Tail(cands), rlen, st)
           ELSE ConsumeCandidates(Tail(cands), rlen,
                  [inv |-> [st.inv EXCEPT ![c.idx].qty = st.inv[c.idx].qty - take],
                   used |-> Append(st.used,
                              [len |-> rlen, qty |-> take, fromLen |-> st.inv[c.idx].len]),
                   needed |-> st.needed - take])

\* for (const r of req) { ... }; st = [inv, used, req]
RECURSIVE ConsumeRequired(_, _, _)
ConsumeRequired(i, st, tolerance) ==
  IF i > Len(st.req) THEN st
  ELSE LET r == st.req[i]
       IN  IF r.needed <= 0 THEN ConsumeRequired(i + 1, st, tolerance)
           ELSE LET after == ConsumeCandidates(Candidates(st.inv, r, tolerance), r.len,
                               [inv |-> st.inv, used |-> st.used, needed |-> r.needed])
                IN  ConsumeRequired(i + 1,
                      [inv |-> after.inv, used |-> after.used,
                       req |-> [st.req EXCEPT ![i].needed = after.needed]],
                      tolerance)

\* req.map(({len, needed}) => ({len, qty: needed})).filter((x) => x.qty > 0)
RemainingRequired(req) ==
  SelectSeq([i \in 1..Len(req) |-> [len |-> req[i].len, qty |-> req[i].needed]],
            LAMBDA x : x.qty > 0)

consumeInventory(requiredPieces, inventoryPieces, tolerance) ==
  LET inv == inventoryPieces
      req == [i \in 1..Len(requiredPieces) |->
                [len |-> requiredPieces[i].len, qty |-> requiredPieces[i].qty,
                 needed |-> requiredPieces[i].qty]]
      done == ConsumeRequired(1, [inv |-> inv, used |-> <<>>, req |-> req], tolerance)
  IN  [remainingRequired |-> RemainingRequired(done.req),
       remainingInventory |-> SelectSeq(done.inv, LAMBDA p : p.qty > 0),
       used |-> done.used]

(* ---------------------------------------------------------------------- *)
(* Inputs of the model                                                     *)
(* ---------------------------------------------------------------------- *)
\* panel models (mils): the default 45x90 panel, the seeded 89.6x44.7 one,
\* and two more whose sides reach the interesting rod capacities
PanelModels ==
  << [name |-> "Panel 45x90", width |-> 45000, height |-> 90000],
     [name |-> "540W", width |-> 89600, height |-> 44700],
     [name |-> "Panel 50x100", width |-> 50000, height |-> 100000],
     [name |-> "Panel 75x170", width |-> 75000, height |-> 170000],
     [name |-> "Panel 0x90", width |-> 0, height |-> 90000] >>

PanelNames == {PanelModels[i].name : i \in 1..Len(PanelModels)}

FrontLegHeights == {23000, 24000}

Pages == {"v1", "balanced"}

Costings == {"computeCost", "extendCostWithUClamps"}

\* the v1 page shows no cost
CostingsOf(pg) == IF pg = "v1" THEN {"none"} ELSE Costings

\* the price fields: the defaults of the form, and some other entries
PriceForms ==
  [rodPrice : {Num(1000), JunkStr},
   basePlatePrice : {Num(150)},
   anchorBoltPrice : {Num(20)},
   angleFitterPrice : {Num(150)},
   normalBoltPrice : {Num(15)},
   uClampPrice : {Num(45)},
   uClampsPerPanel : {Num(4), EmptyStr, Num(2)},
   serviceCharges : {Num(1500)},
   installationCharges : {Num(700)},
   wastagePercent : {Num(15), EmptyStr}]

Forms ==
  [frontLegHeight : {EmptyStr} \cup {Num(h) : h \in FrontLegHeights},
   numberOfPanels : {Num(n) : n \in 0..MaxPanels},
   selectedPanelModel : PanelNames,
   isVertical : BOOLEAN]

(* ---------------------------------------------------------------------- *)
(* State                                                                   *)
(* ---------------------------------------------------------------------- *)
VARIABLES
  page,      \* which version of the page runs: "v1" (greedy-uniform
             \* distributor) or "balanced" (src/app/HomeClient.tsx)
  costing,   \* the cost memo of the page: "none", "computeCost" or
             \* "extendCostWithUClamps"
  form,      \* the input form's fields
  prices,    \* the price fields
  results,   \* the results state of the page (NULL before a calculation)
  alertMsg,  \* the last alert shown, "" when none
  calc,      \* the locals of the last handleCalculate that got past the
             \* field checks (NULL before); published tells whether it
             \* called onCalculate
  cutData,   \* the memo of RodCuttingSuggestions
  cost,      \* the memo of the cost
  pdf,       \* the table of the estimation PDF downloaded last (NULL before)
  creq,      \* reconciler: the required pieces passed to consumeInventory
  cinv,      \* reconciler: the inventory passed to consumeInventory
  cout,      \* reconciler: what the last call returned (NULL before)
  cprev,     \* reconciler: what the call before it returned (NULL before)
  db,        \* pieces page: the rows of the cloud table "pieces", in the
             \* order of their creation
  nextId,    \* pieces page: the id the table gives to the next created row
  sess,      \* pieces page: per browser session, its pieces state, the
             \* await its running handler is at, and that handler's locals
  db0,       \* pieces page: the rows of the table at the start
  consumed,  \* pieces page: the number of pieces used by onUseOne calls
             \* whose writes all succeeded
  added,     \* pieces page: the quantity added by onAdd calls whose writes
             \* all succeeded
  failed,    \* pieces page: whether any call of piecesDb has thrown
  storage,   \* panel store: localStorage under STORAGE_KEY: whether the
             \* key is set, and the panels of its JSON value
  loaded,    \* panel store: what the last loadPanels() returned (<<>> before)
  panelError,\* panel store: the message of the Error the last call threw
  nextPanel, \* panel store: how many ids genId has produced
  deletedIds \* panel store: the ids passed to deletePanel so far

calcVars == <<page, costing, form, prices, results, alertMsg, calc, cutData, cost,
             pdf>>

consumeVars == <<creq, cinv, cout, cprev>>

piecesVars == <<db, nextId, sess, db0, consumed, added, failed>>

panelVars == <<storage, loaded, panelError, nextPanel, deletedIds>>

vars == <<page, costing, form, prices, results, alertMsg, calc, cutData, cost, pdf,
          creq, cinv, cout, cprev,
          db, nextId, sess, db0, consumed, added, failed,
          storage, loaded, panelError, nextPanel, deletedIds>>

\* the pieces page and the panel store before anything is opened
PiecesClosed ==
  /\ db = <<>>
  /\ nextId = 1
  /\ sess = <<>>
  /\ db0 = <<>>
  /\ consumed = 0
  /\ added = 0
  /\ failed = FALSE

PanelsClosed ==
  /\ storage = [set |-> FALSE, panels |-> <<>>]
  /\ loaded = <<>>
  /\ panelError = ""
  /\ nextPanel = 0
  /\ deletedIds = {}

(* ---------------------------------------------------------------------- *)
(* The calculator page                                                     *)
(* ---------------------------------------------------------------------- *)
\* panelModels.find((m) => m.name === selectedPanelModel)
FindModel(name) ==
  PanelModels[CHOOSE i \in 1..Len(PanelModels) : PanelModels[i].name = name]

\* the along-rod and across-structure sides of the selected model
PanelSides(pg, model, isVertical) ==
  IF pg = "v1"
  THEN [panelLen |-> IF isVertical THEN model.height ELSE model.width,
        panelWid |-> IF isVertical THEN model.width ELSE model.height]
  ELSE LET longSide == Max(model.width, model.height)
           shortSide == Min(model.width, model.height)
       IN  [panelLen |-> IF isVertical THEN longSide ELSE shortSide,
            panelWid |-> IF isVertical THEN shortSide ELSE longSide]

\* the cost memo of the page: none on the v1 page; computeCost called without
\* uClampPrice and installationCharges (HomeClient.tsx); or computeCost
\* called without uClampPrice, then extendCostWithUClamps
CostMemo(cst, res, p) ==
  IF cst = "none" THEN NULL
  ELSE IF cst = "computeCost"
  THEN computeCost(res, [p EXCEPT !.uClampPrice = Undefined,
                                  !.installationCharges = Undefined])
  ELSE extendCostWithUClamps(
         computeCost(res, [p EXCEPT !.uClampPrice = Undefined]),
         res, p.uClampPrice, p.uClampsPerPanel)

\* what handleCalculate passes to onCalculate
ResultsOf(pg, maxPanelsPerRod, totalPanels, front, sides) ==
  IF pg = "v1"
  THEN LET structures == smartDistributePanels(totalPanels, maxPanelsPerRod)
       IN  [maxPanelsPerRod |-> maxPanelsPerRod,
            structures |-> structures,
            rods |-> calculateRodsForProjectV1(structures, front, sides.panelLen,
                                               ROD_LENGTH)]
  ELSE LET structures == distributePanelsBalanced(totalPanels, maxPanelsPerRod,
                           sides.panelLen, sides.panelWid, GAP)
       IN  [maxPanelsPerRod |-> maxPanelsPerRod,
            structures |-> structures,
            rods |-> calculateRodsForProject(structures, front, sides.panelLen,
                                             ROD_LENGTH)]

\* the alert of the empty-field check in place of the alert of the
\* maxPanelsPerRod <= 0 check
FillFieldsAlert(pg) == "Please fill in all fields."

\* the alert of the maxPanelsPerRod <= 0 check
TooLargeAlert(pg) ==
  IF pg = "v1" THEN "Panel length is too big to fit on a 164-inch rod with gap."
  ELSE "Panel length too large to fit on a 164-inch rod with gap."

handleCalculate ==
  IF form.frontLegHeight.text = "empty" \/ form.numberOfPanels.text = "empty"
  THEN /\ alertMsg' = "Please fill in all fields."
       /\ UNCHANGED <<results, calc, cutData, cost>>
  ELSE
    LET sides == PanelSides(page, FindModel(form.selectedPanelModel), form.isVertical)
        maxPanelsPerRod == calculatePanelsPerRod(sides.panelLen, ROD_LENGTH, GAP)
        totalPanels == form.numberOfPanels.n
        front == form.frontLegHeight.n
    IN  IF maxPanelsPerRod <= 0
        THEN /\ alertMsg' = TooLargeAlert(page)
             /\ calc' = [panelLen |-> sides.panelLen, panelWid |-> sides.panelWid,
                         maxPanelsPerRod |-> maxPanelsPerRod, published |-> FALSE]
             /\ UNCHANGED <<results, cutData, cost>>
        ELSE /\ results' = ResultsOf(page, maxPanelsPerRod, totalPanels, front, sides)
             /\ calc' = [panelLen |-> sides.panelLen, panelWid |-> sides.panelWid,
                         maxPanelsPerRod |-> maxPanelsPerRod, published |-> TRUE,
                         totalPanels |-> totalPanels, front |-> front]
             /\ cutData' = RodCuttingSuggestions(results')
             /\ cost' = CostMemo(costing, results', prices)
             /\ UNCHANGED alertMsg

HandleCalculate ==
  /\ handleCalculate
  /\ UNCHANGED <<page, costing, form, prices, pdf>>
  /\ UNCHANGED consumeVars
  /\ UNCHANGED piecesVars
  /\ UNCHANGED panelVars

\* the Vertical checkbox
SetIsVertical ==
  /\ form' = [form EXCEPT !.isVertical = ~form.isVertical]
  /\ UNCHANGED <<page, costing, prices, results, alertMsg, calc, cutData, cost, pdf>>
  /\ UNCHANGED consumeVars
  /\ UNCHANGED piecesVars
  /\ UNCHANGED panelVars

\* the Download estimation PDF button (rendered only when there is a cost)
Download ==
  /\ cost # NULL
  /\ \E component \in PdfComponents : pdf' = EstimationPdfJsPdf(component, cost)
  /\ UNCHANGED <<page, costing, form, prices, results, alertMsg, calc, cutData, cost>>
  /\ UNCHANGED consumeVars
  /\ UNCHANGED piecesVars
  /\ UNCHANGED panelVars

\* the form and the prices as the page first shows them
DefaultForm ==
  [frontLegHeight |-> EmptyStr, numberOfPanels |-> EmptyStr,
   selectedPanelModel |-> PanelModels[1].name, isVertical |-> FALSE]

DefaultPrices ==
  [rodPrice |-> Num(1000), basePlatePrice |-> Num(150), anchorBoltPrice |-> Num(20),
   angleFitterPrice |-> Num(150), normalBoltPrice |-> Num(15), uClampPrice |-> Num(45),
   uClampsPerPanel |-> Num(4), serviceCharges |-> Num(1500),
   installationCharges |-> Num(700), wastagePercent |-> Num(15)]

Init ==
  /\ page \in Pages
  /\ costing \in CostingsOf(page)
  /\ form \in Forms
  /\ prices \in PriceForms
  /\ results = NULL
  /\ alertMsg = ""
  /\ calc = NULL
  /\ cutData = RodCuttingSuggestions(NULL)
  /\ cost = CostMemo(costing, NULL, prices)
  /\ pdf = NULL
  /\ creq = <<>>
  /\ cinv = <<>>
  /\ cout = NULL
  /\ cprev = NULL
  /\ PiecesClosed
  /\ PanelsClosed

Next == HandleCalculate \/ SetIsVertical \/ Download

Spec == Init /\ [][Next]_vars

(* ---------------------------------------------------------------------- *)
(* The inventory reconciler as a caller uses it                            *)
(* ---------------------------------------------------------------------- *)
MaxRequired == 2

MaxInventory == 2

MaxQty == 2

\* lengths (mils) around the tolerance of 0.25 in: 24.1 and 24.25 are within
\* it of 24.0, only 24.25 is within it of 24.5
RequiredLens == {24000, 24500}

InventoryLens == {24100, 24250}

RequiredLists ==
  UNION {[1..m -> [len : RequiredLens, qty : 0..MaxQty]] : m \in 0..MaxRequired}

\* inventory rows as loadPieces returns them: len > 0 and qty > 0
InventoryLists ==
  UNION {{[i \in 1..m |-> [id |-> i, len |-> f[i].len, qty |-> f[i].qty]] :
            f \in [1..m -> [len : InventoryLens, qty : 1..MaxQty]]} :
         m \in 0..MaxInventory}

\* consumeInventory(required, inventory)
Consume ==
  /\ cout = NULL
  /\ cout' = consumeInventory(creq, cinv, TOLERANCE)
  /\ UNCHANGED <<creq, cinv, cprev>>
  /\ UNCHANGED calcVars
  /\ UNCHANGED piecesVars
  /\ UNCHANGED panelVars

\* consumeInventory again, on what the last call left
ConsumeRemaining ==
  /\ cout # NULL
  /\ creq' = cout.remainingRequired
  /\ cinv' = cout.remainingInventory
  /\ cprev' = cout
  /\ cout' = consumeInventory(cout.remainingRequired, cout.remainingInventory, TOLERANCE)
  /\ UNCHANGED calcVars
  /\ UNCHANGED piecesVars
  /\ UNCHANGED panelVars

InitConsume ==
  /\ page = "balanced"
  /\ costing = "computeCost"
  /\ form = DefaultForm
  /\ prices = DefaultPrices
  /\ results = NULL
  /\ alertMsg = ""
  /\ calc = NULL
  /\ cutData = NULL
  /\ cost = NULL
  /\ pdf = NULL
  /\ creq \in RequiredLists
  /\ cinv \in InventoryLists
  /\ cout = NULL
  /\ cprev = NULL
  /\ PiecesClosed
  /\ PanelsClosed

NextConsume == Consume \/ ConsumeRemaining

SpecConsume == InitConsume /\ [][NextConsume]_vars

(* ---------------------------------------------------------------------- *)
(* The pieces page: inventory lines in the cloud table, edited from        *)
(* browser sessions. A handler runs up to its next await in one step; the  *)
(* table serves one request at a time. The note of a line is left out.     *)
(* ---------------------------------------------------------------------- *)
MaxPieceId == 3

MaxUses == 2

Sessions == {"a", "b"}

PieceLens == {24000, 36000}

AddQtys == {1}

NoRow == [id |-> 0, len |-> 0, qty |-> 0]

RECURSIVE Reverse(_)
Reverse(q) ==
  IF q = <<>> THEN <<>> ELSE Append(Reverse(Tail(q)), Head(q))

\* select * from pieces order by created_at desc
listPieces(rows) == Reverse(rows)

\* insert into pieces ... : the table gives the row its id
createPiece(rows, id, len, qty) ==
  Append(rows, [id |-> id, len |-> len, qty |-> qty])

\* delete from pieces where id = ...; no row with that id is no error
deletePieceById(rows, id) ==
  SelectSeq(rows, LAMBDA r : r.id # id)

\* pieces.find((p) => Number(p.len) === L): the index of the first such
\* line, 0 when there is none
FindLen(pieces, L) ==
  LET hits == {i \in 1..Len(pieces) : pieces[i].len = L}
  IN  IF hits = {} THEN 0 ELSE CHOOSE i \in hits : \A j \in hits : i <= j

\* pieces.reduce((s, p) => s + (Number(p.qty) || 0), 0)
TotalQty(rows) ==
  SumSeq([i \in 1..Len(rows) |-> rows[i].qty])

\* a session with no handler running
Idle ==
  [pieces |-> <<>>, pc |-> "idle", p |-> NoRow, newQty |-> 0, addQ |-> 0,
   before |-> <<>>, alone |-> FALSE, failedAt |-> ""]

\* session s begins a handler on the table as it is now; a write of s is
\* seen by the handlers of the other sessions (their `alone` is lost)
Began(s, pc, p, newQty, addQ) ==
  [t \in Sessions |->
     IF t = s
     THEN [sess[s] EXCEPT !.pc = pc, !.p = p, !.newQty = newQty, !.addQ = addQ,
                          !.before = db, !.alone = TRUE, !.failedAt = ""]
     ELSE [sess[t] EXCEPT !.alone = FALSE]]

\* session s goes on in its handler after a write
Went(s, pc) ==
  [t \in Sessions |->
     IF t = s THEN [sess[s] EXCEPT !.pc = pc]
     ELSE [sess[t] EXCEPT !.alone = FALSE]]

\* catch (e) { alert(...) } finally { setSaving(false) } in session s
Caught(s, call) ==
  /\ sess' = [sess EXCEPT ![s].pc = "idle", ![s].failedAt = call]
  /\ failed' = TRUE
  /\ UNCHANGED <<db, nextId, db0, consumed, added>>

\* refresh(): on mount and at the end of a handler
Refresh(s) ==
  /\ sess[s].pc = "refresh"
  /\ \/ /\ sess' = [sess EXCEPT ![s] = [Idle EXCEPT !.pieces = listPieces(db)]]
        /\ UNCHANGED <<db, nextId, db0, consumed, added, failed>>
     \/ Caught(s, "listPieces")

\* onUseOne(p) up to the answer of deletePieceById
OnUseOne(s, i) ==
  /\ sess[s].pc = "idle"
  /\ nextId <= MaxPieceId
  /\ consumed < MaxUses
  /\ i \in 1..Len(sess[s].pieces)
  /\ LET p == sess[s].pieces[i]
         currentQty == p.qty
         nextQty == currentQty - 1
     IN  /\ currentQty > 0
         /\ \/ /\ db' = deletePieceById(db, p.id)
               /\ IF nextQty <= 0
                  THEN /\ sess' = Began(s, "refresh", p, 0, 0)
                       /\ consumed' = consumed + 1
                  ELSE /\ sess' = Began(s, "useCreate", p, nextQty, 0)
                       /\ UNCHANGED consumed
               /\ UNCHANGED <<nextId, db0, added, failed>>
            \/ /\ sess' = [sess EXCEPT ![s].p = p, ![s].before = db, ![s].alone = TRUE,
                                        ![s].failedAt = "deletePieceById"]
               /\ failed' = TRUE
               /\ UNCHANGED <<db, nextId, db0, consumed, added>>

\* onUseOne from the answer of deletePieceById to that of createPiece
OnUseOneCreate(s) ==
  /\ sess[s].pc = "useCreate"
  /\ \/ /\ db' = createPiece(db, nextId, sess[s].p.len, sess[s].newQty)
        /\ nextId' = nextId + 1
        /\ sess' = Went(s, "refresh")
        /\ consumed' = consumed + 1
        /\ UNCHANGED <<db0, added, failed>>
     \/ Caught(s, "createPiece")

\* onAdd() with Length L and Quantity Q up to the answer of its first call
OnAdd(s, L, Q) ==
  /\ sess[s].pc = "idle"
  /\ nextId <= MaxPieceId
  /\ LET at == FindLen(sess[s].pieces, L)
     IN  IF at = 0
         THEN \/ /\ db' = createPiece(db, nextId, L, Q)
                 /\ nextId' = nextId + 1
                 /\ sess' = Began(s, "refresh", NoRow, Q, Q)
                 /\ added' = added + Q
                 /\ UNCHANGED <<db0, consumed, failed>>
              \/ /\ sess' = [sess EXCEPT ![s].p = NoRow, ![s].before = db,
                                          ![s].alone = TRUE,
                                          ![s].failedAt = "createPiece"]
                 /\ failed' = TRUE
                 /\ UNCHANGED <<db, nextId, db0, consumed, added>>
         ELSE LET existing == sess[s].pieces[at]
                  newQty == existing.qty + Q
              IN  \/ /\ db' = deletePieceById(db, existing.id)
                     /\ sess' = Began(s, "addCreate", existing, newQty, Q)
                     /\ UNCHANGED <<nextId, db0, consumed, added, failed>>
                  \/ /\ sess' = [sess EXCEPT ![s].p = existing, ![s].before = db,
                                              ![s].alone = TRUE,
                                              ![s].failedAt = "deletePieceById"]
                     /\ failed' = TRUE
                     /\ UNCHANGED <<db, nextId, db0, consumed, added>>

\* onAdd merging into an existing line, from the answer of deletePieceById
\* to that of createPiece
OnAddCreate(s) ==
  /\ sess[s].pc = "addCreate"
  /\ \/ /\ db' = createPiece(db, nextId, sess[s].p.len, sess[s].newQty)
        /\ nextId' = nextId + 1
        /\ sess' = Went(s, "refresh")
        /\ added' = added + sess[s].addQ
        /\ UNCHANGED <<db0, consumed, failed>>
     \/ Caught(s, "createPiece")

\* the table holds one line; each session has just opened the page
InitPieces ==
  /\ page = "balanced"
  /\ costing = "computeCost"
  /\ form = DefaultForm
  /\ prices = DefaultPrices
  /\ results = NULL
  /\ alertMsg = ""
  /\ calc = NULL
  /\ cutData = NULL
  /\ cost = NULL
  /\ pdf = NULL
  /\ creq = <<>>
  /\ cinv = <<>>
  /\ cout = NULL
  /\ cprev = NULL
  /\ \E q \in 1..MaxQty : db = createPiece(<<>>, 1, 24000, q)
  /\ nextId = 2
  /\ sess = [s \in Sessions |-> [Idle EXCEPT !.pc = "refresh"]]
  /\ db0 = db
  /\ consumed = 0
  /\ added = 0
  /\ failed = FALSE
  /\ PanelsClosed

NextPieces ==
  \/ \E s \in Sessions : Refresh(s) /\ UNCHANGED calcVars /\ UNCHANGED consumeVars
                                       /\ UNCHANGED panelVars
  \/ \E s \in Sessions : \E i \in 1..MaxPieceId :
       OnUseOne(s, i) /\ UNCHANGED calcVars /\ UNCHANGED consumeVars
                      /\ UNCHANGED panelVars
  \/ \E s \in Sessions : OnUseOneCreate(s) /\ UNCHANGED calcVars
                                              /\ UNCHANGED consumeVars
                                              /\ UNCHANGED panelVars
  \/ \E s \in Sessions : \E L \in PieceLens : \E Q \in AddQtys :
       OnAdd(s, L, Q) /\ UNCHANGED calcVars /\ UNCHANGED consumeVars
                      /\ UNCHANGED panelVars
  \/ \E s \in Sessions : OnAddCreate(s) /\ UNCHANGED calcVars
                                           /\ UNCHANGED consumeVars
                                           /\ UNCHANGED panelVars

SpecPieces == InitPieces /\ [][NextPieces]_vars

(* ---------------------------------------------------------------------- *)
(* The local panel store (localStorage, in the browser); the description   *)
(* of a panel is left out.                                                 *)
(* ---------------------------------------------------------------------- *)
DEFAULT_PANELS ==
  << [id |-> "p1", name |-> "540W", width |-> 89, height |-> 45],
     [id |-> "p2", name |-> "550W", width |-> 90, height |-> 45] >>

\* the ids genId produces, in order; none is ever produced twice
GenIds == <<"u1">>

PanelIds == {"p1", "p2", "u1"}

\* what is typed as the name, the width and the height of a panel
PanelNameInputs == {"540w", "600W"}

PanelWidthInputs == {0, 90, 100}

PanelHeightInputs == {45}

\* String(p?.name ?? "").trim().toLowerCase()
nameKeyOf(p) ==
  CASE p.name = "540W" -> "540w"
    [] p.name = "550W" -> "550w"
    [] p.name = "600W" -> "600w"
    [] OTHER -> p.name

\* `${Number(p?.width ?? 0)}x${Number(p?.height ?? 0)}`
dimKeyOf(p) == <<p.width, p.height>>

\* cleaned.filter((p) => p.name && p.width > 0 && p.height > 0); every stored
\* panel has an id, so changed tells whether the filter dropped one
ensureIdsAndClean(panels) ==
  LET filtered == SelectSeq(panels, LAMBDA q : q.name # "" /\ q.width > 0 /\ q.height > 0)
  IN  [panels |-> filtered, changed |-> Len(filtered) # Len(panels)]

\* localStorage.setItem(STORAGE_KEY, JSON.stringify(panels))
savePanels(panels) == [set |-> TRUE, panels |-> panels]

\* loadPanels() on the stored value raw: what it returns and what it leaves
\* stored
loadPanels(raw) ==
  IF ~raw.set
  THEN [returned |-> DEFAULT_PANELS, stored |-> savePanels(DEFAULT_PANELS)]
  ELSE LET clean == ensureIdsAndClean(raw.panels)
       IN  [returned |-> IF Len(clean.panels) # 0 THEN clean.panels ELSE DEFAULT_PANELS,
            stored |-> IF clean.changed THEN savePanels(clean.panels) ELSE raw]

\* the index of the panel of that id, 0 when there is none
IndexOfId(panels, id) ==
  LET hits == {i \in 1..Len(panels) : panels[i].id = id}
  IN  IF hits = {} THEN 0 ELSE CHOOSE i \in hits : \A j \in hits : i <= j

\* a call of loadPanels()
LoadPanels ==
  /\ loaded' = loadPanels(storage).returned
  /\ storage' = loadPanels(storage).stored
  /\ UNCHANGED <<panelError, nextPanel, deletedIds>>
  /\ UNCHANGED calcVars
  /\ UNCHANGED consumeVars
  /\ UNCHANGED piecesVars

\* addPanel({name, width, height})
AddPanel(name, width, height) ==
  /\ nextPanel < Len(GenIds)
  /\ LET panels == loadPanels(storage).returned
         newPanel == [id |-> GenIds[nextPanel + 1], name |-> name,
                      width |-> width, height |-> height]
     IN  /\ nextPanel' = nextPanel + 1
         /\ IF \E i \in 1..Len(panels) : nameKeyOf(panels[i]) = nameKeyOf(newPanel)
            THEN /\ panelError' = "Panel model name already exists."
                 /\ storage' = loadPanels(storage).stored
            ELSE IF \E i \in 1..Len(panels) : dimKeyOf(panels[i]) = dimKeyOf(newPanel)
            THEN /\ panelError' = "A panel model with same Width x Height already exists."
                 /\ storage' = loadPanels(storage).stored
            ELSE /\ panelError' = ""
                 /\ storage' = savePanels(<<newPanel>> \o panels)
  /\ UNCHANGED <<loaded, deletedIds>>
  /\ UNCHANGED calcVars
  /\ UNCHANGED consumeVars
  /\ UNCHANGED piecesVars

\* updatePanel(id, {name, width})
UpdatePanel(id, name, width) ==
  /\ LET panels == loadPanels(storage).returned
         idx == IndexOfId(panels, id)
     IN  IF idx = 0
         THEN /\ panelError' = "Panel not found."
              /\ storage' = loadPanels(storage).stored
         ELSE LET updated == [panels[idx] EXCEPT !.name = name, !.width = width]
              IN  IF \E i \in 1..Len(panels) :
                       panels[i].id # id /\ nameKeyOf(panels[i]) = nameKeyOf(updated)
                  THEN /\ panelError' = "Another panel model already has this name."
                       /\ storage' = loadPanels(storage).stored
                  ELSE IF \E i \in 1..Len(panels) :
                            panels[i].id # id /\ dimKeyOf(panels[i]) = dimKeyOf(updated)
                  THEN /\ panelError' =
                            "Another panel model already has same Width x Height."
                       /\ storage' = loadPanels(storage).stored
                  ELSE /\ panelError' = ""
                       /\ storage' = savePanels([panels EXCEPT ![idx] = updated])
  /\ UNCHANGED <<loaded, nextPanel, deletedIds>>
  /\ UNCHANGED calcVars
  /\ UNCHANGED consumeVars
  /\ UNCHANGED piecesVars

\* deletePanel(id)
DeletePanel(id) ==
  /\ LET panels == loadPanels(storage).returned
     IN  storage' = savePanels(SelectSeq(panels, LAMBDA q : q.id # id))
  /\ deletedIds' = deletedIds \cup {id}
  /\ panelError' = ""
  /\ UNCHANGED <<loaded, nextPanel>>
  /\ UNCHANGED calcVars
  /\ UNCHANGED consumeVars
  /\ UNCHANGED piecesVars

\* a browser that has never opened the store
InitPanels ==
  /\ page = "balanced"
  /\ costing = "computeCost"
  /\ form = DefaultForm
  /\ prices = DefaultPrices
  /\ results = NULL
  /\ alertMsg = ""
  /\ calc = NULL
  /\ cutData = NULL
  /\ cost = NULL
  /\ pdf = NULL
  /\ creq = <<>>
  /\ cinv = <<>>
  /\ cout = NULL
  /\ cprev = NULL
  /\ PiecesClosed
  /\ PanelsClosed

NextPanels ==
  \/ LoadPanels
  \/ \E name \in PanelNameInputs : \E width \in PanelWidthInputs :
       \E height \in PanelHeightInputs : AddPanel(name, width, height)
  \/ \E id \in PanelIds : \E name \in PanelNameInputs : \E width \in PanelWidthInputs :
       UpdatePanel(id, name, width)
  \/ \E id \in PanelIds : DeletePanel(id)

SpecPanels == InitPanels /\ [][NextPanels]_vars

(* ---------------------------------------------------------------------- *)
(* Properties                                                              *)
(* ---------------------------------------------------------------------- *)
\* the handler's last call published the results now shown
Published == calc # NULL /\ calc.published

\* the length of a rod's cuts with one kerf between consecutive cuts
CutLength(rod) ==
  SumSeq([i \in 1..Len(rod.cuts) |-> rod.cuts[i].len])
  + KERF * (Len(rod.cuts) - 1)

\* the number of rods of the cutting plan now shown
PlanRods == IF cutData = NULL THEN 0 ELSE cutData.rodsCount

\* C1: the count k returned by the rod-capacity calculation is the largest
\* number of panels that fits on one rod: k panels with k-1 gaps fit within
\* rodLength, k+1 panels with k gaps do not.
C1_MaxPanelsPerRodIsLargestFit ==
  calc # NULL =>
    LET k == calc.maxPanelsPerRod
    IN  /\ k * calc.panelLen + (k - 1) * GAP <= ROD_LENGTH
        /\ (k + 1) * calc.panelLen + k * GAP > ROD_LENGTH

C1_Witness ==
  /\ calc # NULL
  /\ calc.maxPanelsPerRod = 2
  /\ calc.panelLen = 75000

\* C2: the groups returned by either distributor strategy hold exactly
\* totalPanels panels: the sum of panels * count over the groups equals
\* totalPanels, for every totalPanels >= 0.
C2_GroupsSumToTotalPanels ==
  Published =>
    SumSeq([i \in 1..Len(results.structures) |->
              results.structures[i].panels * results.structures[i].count])
      = calc.totalPanels

C2_Witness ==
  /\ Published
  /\ calc.totalPanels = 5
  /\ Len(results.structures) = 2
  /\ results.structures[2].count = 1

\* C3: for totalPanels >= 1, every group returned by either distributor
\* strategy has 1 <= panels <= maxPanelsPerRod and count >= 1.
C3_GroupsWithinRodCapacity ==
  (Published /\ calc.totalPanels >= 1) =>
    \A i \in 1..Len(results.structures) :
      /\ results.structures[i].panels \in 1..calc.maxPanelsPerRod
      /\ results.structures[i].count >= 1

C3_Witness ==
  /\ Published
  /\ page = "balanced"
  /\ calc.totalPanels > calc.maxPanelsPerRod
  /\ \E i \in 1..Len(results.structures) :
       results.structures[i].panels = calc.maxPanelsPerRod

\* C4: in every rod of the cutting plan the cuts, with one kerf between
\* consecutive cuts, never exceed the rod length, and the reported waste is
\* not negative.
C4_RodsNeverOverfilled ==
  cutData # NULL =>
    \A i \in 1..Len(cutData.rodsPlan) :
      /\ CutLength(cutData.rodsPlan[i]) <= ROD_LENGTH
      /\ cutData.rodsPlan[i].waste >= 0

\* C5: with totalPanels = 0 and a valid panel the calculation yields an empty
\* structure list, zero total inches, zero rods needed and a cost result
\* whose subtotal is 0.
C5_ZeroPanelsGiveEmptyResult ==
  (Published /\ calc.totalPanels = 0) =>
    /\ results.structures = <<>>
    /\ results.rods.totals.totalInchesRequired = 0
    /\ results.rods.totals.totalRodsNeeded = 0
    /\ cost # NULL
    /\ cost.subtotal = 0

\* C6: totalRodsNeeded, the ceiling of the total inches over ROD_LENGTH, is a
\* lower bound on the number of rods of the cutting plan built from the same
\* breakdown.
C6_RodsNeededIsLowerBound ==
  results # NULL => results.rods.totals.totalRodsNeeded <= PlanRods

\* C7: in every cost result each line item is quantity times unit price (rod
\* inches times the per-inch rod price), subtotal is the sum of the line
\* items, wastage is subtotal * wastagePercent / 100 and total is
\* subtotal + wastage + fabrication charge + installation charge.
C7_CostTotalsAddUp ==
  cost # NULL =>
    /\ cost.items.rodsByInches = cost.qty.inchesUsed * cost.price.rodPerInch * 100
    /\ cost.items.basePlates = 16400 * cost.qty.basePlates * cost.price.basePlate
    /\ cost.items.anchorBolts = 16400 * cost.qty.anchorBolts * cost.price.anchorBolt
    /\ cost.items.angleFitters = 16400 * cost.qty.angleFitters * cost.price.angleFitter
    /\ cost.items.normalBolts = 16400 * cost.qty.normalBolts * cost.price.normalBolt
    /\ cost.items.uClamps = 16400 * cost.qty.uClamps * cost.price.uClamp
    /\ cost.subtotal = cost.items.rodsByInches + cost.items.basePlates
                       + cost.items.anchorBolts + cost.items.angleFitters
                       + cost.items.normalBolts + cost.items.uClamps
    /\ cost.subtotal % 100 = 0
    /\ cost.wastage = (cost.subtotal \div 100) * cost.price.wastagePct
    /\ cost.total = cost.subtotal + cost.wastage
                    + 16400 * cost.price.service + 16400 * cost.price.installation

C7_Witness ==
  /\ cost # NULL
  /\ costing = "extendCostWithUClamps"
  /\ cost.items.uClamps > 0
  /\ cost.wastage > 0
  /\ cost.price.installation > 0

\* C8: with S the sum of count over the structure groups and P the sum of
\* panels * count, every cost result has basePlates = 4 S, anchorBolts = 16 S,
\* angleFitters = 4 S and normalBolts = 24 S, and uClamps = 4 P when the
\* U-clamps per panel are left at their default.
C8_HardwarePerStructureClampsPerPanel ==
  cost # NULL =>
    LET S == SumSeq([i \in 1..Len(results.structures) |-> results.structures[i].count])
        P == SumSeq([i \in 1..Len(results.structures) |->
                       results.structures[i].panels * results.structures[i].count])
    IN  /\ cost.qty.basePlates = 4 * S
        /\ cost.qty.anchorBolts = 16 * S
        /\ cost.qty.angleFitters = 4 * S
        /\ cost.qty.normalBolts = 24 * S
        /\ (costing = "computeCost" \/ prices.uClampsPerPanel \in {EmptyStr, Num(4)})
             => cost.qty.uClamps = 4 * P

C8_Witness ==
  /\ cost # NULL
  /\ Len(results.structures) = 2
  /\ cost.qty.structures = 2
  /\ cost.qty.panels = 5
  /\ costing = "extendCostWithUClamps"
  /\ prices.uClampsPerPanel = EmptyStr

\* the total quantity of the entries of length L in a list of {len, qty}
QtyOfLen(list, L) ==
  SumSeq([i \in 1..Len(list) |-> IF list[i].len = L THEN list[i].qty ELSE 0])

\* C9: consume never drops any part of a requirement: for every required
\* length L the required quantity equals the quantity in the used records for
\* L plus the quantity left for L in remainingRequired; a shortfall comes back
\* as data in the result.
C9_RequirementsConserved ==
  cout # NULL =>
    \A L \in {creq[i].len : i \in 1..Len(creq)} :
      QtyOfLen(creq, L) = QtyOfLen(cout.used, L) + QtyOfLen(cout.remainingRequired, L)

C9_Witness ==
  /\ cout # NULL
  /\ cprev = NULL
  /\ Len(creq) = 2
  /\ creq[1].len = creq[2].len
  /\ cout.used # <<>>
  /\ cout.remainingRequired # <<>>

\* C10: consume is idempotent at its fixed point: consume applied to the
\* remainingRequired and remainingInventory of a call uses nothing and returns
\* the same remainingRequired and the same remainingInventory.
C10_ConsumeIdempotent ==
  cprev # NULL =>
    /\ cout.used = <<>>
    /\ cout.remainingRequired = cprev.remainingRequired
    /\ cout.remainingInventory = cprev.remainingInventory

C10_Witness ==
  /\ cprev # NULL
  /\ cprev.used # <<>>
  /\ cprev.remainingRequired # <<>>
  /\ cprev.remainingInventory # <<>>

\* C11: the reported rod totals satisfy
\* totalRodsNeeded = ceil(totalInchesRequired / ROD_LENGTH), with the
\* totalInchesRequired reported in the same totals.
C11_RodsNeededFromReportedInches ==
  results # NULL =>
    results.rods.totals.totalRodsNeeded
      = CeilDiv(results.rods.totals.totalInchesRequired * 1000, ROD_LENGTH)

\* C12: a panel length <= 0 makes the rod-capacity calculation fail: no
\* panel count comes back and no structures or rod totals are computed from
\* it.
C12_NonPositiveLengthRejected ==
  (calc # NULL /\ calc.panelLen <= 0) => ~calc.published

\* C13: when the along-rod panel length fits not even once
\* (maxPanelsPerRod = 0) the handler alerts that the panel is too long for
\* the rod and publishes nothing: the results shown before, and the memos
\* derived from them, stay as they were.
C13_InfeasibleLengthRejected ==
  [][(HandleCalculate /\ calc' # NULL /\ calc'.maxPanelsPerRod = 0) =>
       /\ ~calc'.published
       /\ alertMsg' \in {"Panel length too large to fit on a 164-inch rod with gap.",
                         "Panel length is too big to fit on a 164-inch rod with gap."}
       /\ results' = results
       /\ cutData' = cutData
       /\ cost' = cost]_vars

C13_Witness ==
  /\ calc # NULL
  /\ calc.maxPanelsPerRod = 0
  /\ ~calc.published
  /\ results # NULL
  /\ alertMsg # ""

\* C14: the along-rod length used by the handler is max(width, height) of
\* the selected model when the vertical flag is set and min(width, height)
\* when it is not, whichever of the two the model stores as its width.
C14_LongSideAlongRodWhenVertical ==
  [][(HandleCalculate /\ calc' # NULL) =>
       LET model == FindModel(form.selectedPanelModel)
       IN  calc'.panelLen = IF form.isVertical
                            THEN Max(model.width, model.height)
                            ELSE Min(model.width, model.height)]_vars

\* C15: every group of count c has frontLegsCount = rearLegsCount =
\* hypoRodsCount = 2c whatever its panels per structure; totalFrontLegs,
\* totalRearLegs and totalHypoRods are each twice the sum of the counts; and
\* the total inches is the length of exactly those pieces, the sum over the
\* groups of 2c (frontLegHeight + rearLegHeight + hypotenuseRodLength),
\* reported to the whole inch.
C15_TwoOfEachPiecePerStructure ==
  results # NULL =>
    LET bd == results.rods.breakdown
        tot == results.rods.totals
        S == SumSeq([i \in 1..Len(results.structures) |-> results.structures[i].count])
        inches == SumSeq([i \in 1..Len(bd) |->
                    2 * bd[i].count * (bd[i].legs.frontLegHeight
                                       + 10 * bd[i].legs.rearLegHeight
                                       + 10 * bd[i].legs.hypotenuseRodLength)])
    IN  /\ Len(bd) = Len(results.structures)
        /\ \A i \in 1..Len(bd) :
             /\ bd[i].count = results.structures[i].count
             /\ bd[i].frontLegsCount = 2 * bd[i].count
             /\ bd[i].rearLegsCount = 2 * bd[i].count
             /\ bd[i].hypoRodsCount = 2 * bd[i].count
        /\ tot.totalFrontLegs = 2 * S
        /\ tot.totalRearLegs = 2 * S
        /\ tot.totalHypoRods = 2 * S
        /\ tot.totalInchesRequired = (2 * inches + 1000) \div 2000

C15_Witness ==
  /\ results # NULL
  /\ Len(results.rods.breakdown) = 2
  /\ results.rods.breakdown[1].count = 2
  /\ results.rods.breakdown[1].panels # results.rods.breakdown[2].panels
  /\ results.rods.totals.totalHypoRods = 6

\* C16: the hypotenuse rod length is (panelLen + gap) * panelsPerStructure
\* and rearLegHeight = frontLegHeight + triangleHeight; with frontLegHeight
\* 24, 3 panels per structure, panelLen 45, gap 5 and a tilt of 19 degrees the
\* hypotenuse is 150.00 and the rear leg 72.84 (triangleHeight 48.84).
C16_LegGeometryExample ==
  Published =>
    \A i \in 1..Len(results.rods.breakdown) :
      LET legs == results.rods.breakdown[i].legs
      IN  /\ 10 * legs.hypotenuseRodLength = (calc.panelLen + GAP) * legs.panelsPerStructure
          /\ (calc.front = 24000 /\ calc.panelLen = 45000 /\ legs.panelsPerStructure = 3)
               => (legs.hypotenuseRodLength = 15000 /\ legs.rearLegHeight = 7284)

\* C17: for totalPanels >= 1 the greedy-uniform distributor returns exactly
\* one group {maxPerRod, floor(total / maxPerRod)} when that count is
\* positive, then one group {total mod maxPerRod, 1} when the remainder is
\* not zero, and nothing else; distribute(6,3) = [{3,2}],
\* distribute(5,3) = [{3,1},{2,1}], distribute(4,3) = [{3,1},{1,1}].
C17_GreedyGroupsExact ==
  /\ smartDistributePanels(6, 3) = << [panels |-> 3, count |-> 2] >>
  /\ smartDistributePanels(5, 3) = << [panels |-> 3, count |-> 1],
                                      [panels |-> 2, count |-> 1] >>
  /\ smartDistributePanels(4, 3) = << [panels |-> 3, count |-> 1],
                                      [panels |-> 1, count |-> 1] >>
  /\ (Published /\ page = "v1" /\ calc.totalPanels >= 1) =>
       LET full == calc.totalPanels \div calc.maxPanelsPerRod
           rest == calc.totalPanels % calc.maxPanelsPerRod
       IN  results.structures =
             (IF full > 0
              THEN << [panels |-> calc.maxPanelsPerRod, count |-> full] >>
              ELSE << >>)
             \o (IF rest # 0 THEN << [panels |-> rest, count |-> 1] >> ELSE << >>)

C17_Witness ==
  /\ Published
  /\ page = "v1"
  /\ calc.totalPanels >= 1
  /\ calc.totalPanels < calc.maxPanelsPerRod
  /\ Len(results.structures) = 1

RECURSIVE Partitions(_, _)
Partitions(n, k) ==
  IF n = 0 THEN {<< >>}
  ELSE UNION {{<<j>> \o q : q \in Partitions(n - j, j)} : j \in 1..Min(k, n)}

\* the sum over the parts of aspectPenalty(part) + STRUCTURE_PENALTY, for the
\* panel of the last calculation
RECURSIVE PartitionPenalty(_)
PartitionPenalty(q) ==
  IF q = << >> THEN 0
  ELSE ScoreAdd(ScoreAdd(PartitionPenalty(Tail(q)),
                         aspectPenalty(Head(q), calc.panelLen, calc.panelWid, GAP)),
                STRUCTURE_PENALTY_E4)

\* the sizes of the structures of a group list, one element per structure
RECURSIVE SizesOf(_)
SizesOf(groups) ==
  IF groups = << >> THEN << >>
  ELSE [i \in 1..Head(groups).count |-> Head(groups).panels] \o SizesOf(Tail(groups))

\* C19: the structure sizes returned by the balanced distributor are a
\* partition of totalPanels into parts in 1..maxPerRod, and no partition of
\* totalPanels into such parts has a strictly smaller sum of
\* aspectPenalty(k) + STRUCTURE_PENALTY.
C19_BalancedSizesAreOptimal ==
  (Published /\ page = "balanced") =>
    LET sizes == SizesOf(results.structures)
        all == Partitions(calc.totalPanels, Max(1, calc.maxPanelsPerRod))
    IN  /\ sizes \in all
        /\ \A q \in all :
             LET other == PartitionPenalty(q)
                 mine == PartitionPenalty(sizes)
             IN  \/ other = Infinity
                 \/ (mine # Infinity /\ mine <= other)

C19_Witness ==
  /\ Published
  /\ page = "balanced"
  /\ calc.totalPanels = 5
  /\ calc.maxPanelsPerRod >= 3
  /\ Len(results.structures) = 2

\* the pieces of the results shown, each with its position in the list the
\* component builds (the identity of the piece object)
TaggedPieces ==
  LET pieces == PiecesOf(results.rods.breakdown, 1)
  IN  [i \in 1..Len(pieces) |->
         [type |-> pieces[i].type, len |-> pieces[i].len, id |-> i]]

\* the cutting plan of those pieces
TaggedPlan == buildCutPlanFFD(TaggedPieces, ROD_LENGTH, KERF)

\* piece a is processed before piece b: longer first, equal lengths in input
\* order
Before(a, b) == a.len > b.len \/ (a.len = b.len /\ a.id < b.id)

\* the cuts a rod holds when piece c is processed
CutsBefore(rod, c) == SelectSeq(rod.cuts, LAMBDA x : Before(x, c))

\* usedLength + kerf (only if the rod already has a cut) + pieceLength
\* <= rodLength, at the time piece c is processed
Fits(rod, c) ==
  LET held == CutsBefore(rod, c)
      used == SumSeq([i \in 1..Len(held) |-> held[i].len])
              + (IF Len(held) > 0 THEN KERF * (Len(held) - 1) ELSE 0)
  IN  used + (IF Len(held) > 0 THEN KERF ELSE 0) + c.len <= ROD_LENGTH

\* C20: buildCutPlanFFD processes the pieces in non-increasing order of
\* length, equal lengths in their input order, and puts each piece in the
\* earliest-created rod that can take it (used + kerf if the rod has a cut +
\* length <= rodLength); a new rod is opened only when no existing rod can
\* take the piece; the plan shown is the plan of the pieces of the results.
C20_FirstFitDecreasing ==
  (results # NULL /\ cutData # NULL) =>
    LET plan == TaggedPlan
    IN  /\ cutData.rodsPlan =
             [r \in 1..Len(plan) |->
                [cuts |-> [j \in 1..Len(plan[r].cuts) |->
                             [type |-> plan[r].cuts[j].type,
                              len |-> plan[r].cuts[j].len]],
                 used |-> plan[r].used,
                 waste |-> plan[r].waste]]
        /\ \A p \in 1..Len(TaggedPieces) :
             Cardinality({<<r, j>> \in (1..Len(plan)) \X (1..Len(TaggedPieces)) :
                            j <= Len(plan[r].cuts) /\ plan[r].cuts[j].id = p}) = 1
        /\ \A r \in 1..Len(plan) :
             /\ Len(plan[r].cuts) >= 1
             /\ \A j \in 2..Len(plan[r].cuts) :
                  /\ Before(plan[r].cuts[j - 1], plan[r].cuts[j])
                  /\ Fits(plan[r], plan[r].cuts[j])
             /\ \A r0 \in 1..(r - 1) :
                  /\ Before(plan[r0].cuts[1], plan[r].cuts[1])
                  /\ \A j \in 1..Len(plan[r].cuts) : ~Fits(plan[r0], plan[r].cuts[j])

C20_Witness ==
  /\ results # NULL
  /\ cutData # NULL
  /\ cutData.rodsCount >= 3
  /\ \E r \in 2..Len(cutData.rodsPlan) :
       /\ Len(cutData.rodsPlan[r].cuts) >= 2
       /\ Len(cutData.rodsPlan[r - 1].cuts) >= 2
       /\ cutData.rodsPlan[r].cuts[1].type # cutData.rodsPlan[r].cuts[2].type

\* the quantity taken from inventory length L by the first n used records
UsedFromLen(used, n, L) ==
  SumSeq([i \in 1..n |-> IF used[i].fromLen = L THEN used[i].qty ELSE 0])

\* C21: every used record pairs a required length with an inventory length
\* within the tolerance of it, and candidates are consumed closest first: when
\* a record is made, every inventory length strictly closer to the required
\* length is exhausted.
C21_ClosestFirstWithinTolerance ==
  cout # NULL =>
    \A k \in 1..Len(cout.used) :
      LET u == cout.used[k]
      IN  /\ Abs(u.fromLen - u.len) <= TOLERANCE
          /\ \A j \in 1..Len(cinv) :
                Abs(cinv[j].len - u.len) < Abs(u.fromLen - u.len) =>
                  QtyOfLen(cinv, cinv[j].len)
                    = UsedFromLen(cout.used, k - 1, cinv[j].len)

C21_Witness ==
  /\ cout # NULL
  /\ cprev = NULL
  /\ Len(cinv) = 2
  /\ Abs(cinv[1].len - 24000) > Abs(cinv[2].len - 24000)
  /\ Len(cout.used) >= 2
  /\ cout.used[1].len = 24000
  /\ cout.used[2].len = 24000
  /\ cout.used[1].fromLen = cinv[2].len
  /\ cout.used[2].fromLen = cinv[1].len

\* no handler of the pieces page is running
PiecesQuiet == \A s \in DOMAIN sess : sess[s].pc = "idle"

\* C22: inventory updates are committed atomically: when handlers of two
\* sessions that loaded the same line run concurrently and every call
\* succeeds, no update is lost or duplicated; once they are complete the
\* stored total quantity is the initial quantity, plus the quantity added,
\* minus the number of pieces used (the pool held that many pieces).
C22_NoLostUpdate ==
  (PiecesQuiet /\ ~failed /\ consumed <= TotalQty(db0)) =>
    TotalQty(db) = TotalQty(db0) + added - consumed

\* C28: inventory edits are failure-atomic: when deletePieceById or
\* createPiece throws in onUseOne or onAdd, and no other session has written
\* since the handler began, the stored inventory is what it was when the
\* handler began.
C28_FailedEditLeavesInventory ==
  \A s \in DOMAIN sess :
    (sess[s].failedAt \in {"deletePieceById", "createPiece"} /\ sess[s].alone) =>
      db = sess[s].before

\* the cuts of all rods of a plan, rod after rod
RECURSIVE CutsOf(_, _)
CutsOf(plan, r) ==
  IF r > Len(plan) THEN <<>> ELSE plan[r].cuts \o CutsOf(plan, r + 1)

\* how many entries of a list of pieces are the piece x
CountOf(list, x) == Cardinality({i \in 1..Len(list) : list[i] = x})

\* C23: buildCutPlanFFD conserves pieces: the cuts of all rods of the plan
\* are, as a multiset of (type, length), the pieces it was given; for an
\* empty piece list the plan is empty and its total waste is zero.
C23_PlanConservesPieces ==
  /\ buildCutPlanFFD(<<>>, ROD_LENGTH, KERF) = <<>>
  /\ SumSeq([i \in 1..Len(buildCutPlanFFD(<<>>, ROD_LENGTH, KERF)) |->
               buildCutPlanFFD(<<>>, ROD_LENGTH, KERF)[i].waste]) = 0
  /\ (results # NULL /\ cutData # NULL) =>
       LET pieces == PiecesOf(results.rods.breakdown, 1)
           cuts == CutsOf(cutData.rodsPlan, 1)
       IN  /\ Len(cuts) = Len(pieces)
           /\ \A i \in 1..Len(pieces) :
                CountOf(cuts, pieces[i]) = CountOf(pieces, pieces[i])

C23_Witness ==
  /\ results # NULL
  /\ cutData # NULL
  /\ cutData.piecesCount = 12
  /\ cutData.rodsCount >= 2
  /\ CountOf(CutsOf(cutData.rodsPlan, 1), CutsOf(cutData.rodsPlan, 1)[1]) >= 2

\* C24: for every calculation the page accepts, every piece handed to the
\* cutting planner (front leg, rear leg, hypotenuse rod) is no longer than
\* one stock rod of 164 in.
C24_PiecesNoLongerThanRod ==
  (Published /\ results # NULL) =>
    LET pieces == PiecesOf(results.rods.breakdown, 1)
    IN  \A i \in 1..Len(pieces) : pieces[i].len <= ROD_LENGTH

C26_ExtendedCostMatchesDirect ==
  (costing = "extendCostWithUClamps" /\ cost # NULL
     /\ prices.uClampsPerPanel \in {EmptyStr, Num(UCLAMPS_PER_PANEL)}) =>
    LET direct == computeCost(results, prices)
    IN  /\ direct # NULL
        /\ cost.qty.uClamps = direct.qty.uClamps
        /\ cost.items.uClamps = direct.items.uClamps
        /\ cost.subtotal = direct.subtotal
        /\ cost.wastage = direct.wastage
        /\ cost.total = direct.total

C26_Witness ==
  /\ costing = "extendCostWithUClamps"
  /\ cost # NULL
  /\ prices.uClampsPerPanel = EmptyStr
  /\ prices.wastagePercent = Num(15)
  /\ cost.qty.panels = 5
  /\ cost.items.uClamps = Money(5 * 4 * 45)
  /\ cost.subtotal > cost.items.uClamps

\* C27: in the estimation PDF the table totals match: the GRAND TOTAL row is
\* the sum of the Materials, Fabrication charges and Installation charges
\* rows, and the Materials row is the sum of the itemised material rows under
\* it, for every cost and every wastage percentage.
C27_PdfTotalsMatch ==
  pdf # NULL =>
    /\ pdf.grandTotal = pdf.materials + pdf.fabrication + pdf.installation
    /\ pdf.materials = SumSeq(pdf.breakdownRows)

\* the rods of the plan shown whose cuts, longest first, are the pattern pat
RodsOfPattern(pat) ==
  {r \in 1..Len(cutData.rodsPlan) :
     /\ Len(cutData.rodsPlan[r].cuts) = Len(pat)
     /\ \A j \in 1..Len(pat) :
          /\ cutData.rodsPlan[r].cuts[j].type = pat[j].type
          /\ cutData.rodsPlan[r].cuts[j].len = pat[j].len * 10}

\* C29: summarizePatterns groups the rods by signature: every pattern is
\* listed once with the number of rods that have it, the counts of all
\* patterns sum to the number of rods, and the patterns are listed in
\* non-increasing order of count.
C29_PatternsGroupRods ==
  cutData # NULL =>
    LET pats == cutData.patterns
    IN  /\ SumSeq([i \in 1..Len(pats) |-> pats[i].count]) = cutData.rodsCount
        /\ \A i \in 1..Len(pats) :
             /\ pats[i].count = Cardinality(RodsOfPattern(pats[i].pattern))
             /\ pats[i].count >= 1
             /\ \A j \in 1..Len(pats) :
                  /\ (i < j => pats[i].count >= pats[j].count)
                  /\ (i # j => pats[i].pattern # pats[j].pattern)

C29_Witness ==
  /\ cutData # NULL
  /\ Len(cutData.patterns) >= 2
  /\ cutData.patterns[1].count >= 2
  /\ cutData.patterns # PatternMap(cutData.rodsPlan, 1, <<>>)

\* C30: deleting a panel model is permanent in the local panel store: after
\* deletePanel(id) has completed, no later loadPanels() returns a panel of
\* that id (so getPanelById(id), a find over loadPanels(), returns null),
\* whatever addPanel, updatePanel and deletePanel calls came between.
C30_DeletedPanelStaysDeleted ==
  [][LoadPanels =>
       \A i \in 1..Len(loaded') : loaded'[i].id \notin deletedIds]_vars

====
